---------------------------- MODULE Spec2Model ----------------------------
(***************************************************************************)
(* join-pdf-go: folder listing, upload, delete, merge and download of the  *)
(* PDF service (package pdf), modelled from the Go source.                 *)
(*                                                                         *)
(* Strings are sequences of one-character strings; Go's string comparison  *)
(* is byte-wise, so characters are compared by their ASCII codes.          *)
(* Paths are sequences of components relative to the user's storage root   *)
(* (getUserStoragePath), each component a string.                          *)
(***************************************************************************)
EXTENDS Integers, Sequences, FiniteSets, TLC

VARIABLES
    mockDir,    \* what osReadDir returns to ListFilesWithExtension: [entries, err]
    ext,        \* the extension handed to ListFilesWithExtension
    result,     \* what ListFilesWithExtension returned: [called, files, err]
    fsys,       \* the user's storage tree: path -> node (directory or file)
    resp,       \* the last request and its response
    lastMerged, \* per folder name, the inputs of its most recent successful merge
    validCodes, \* the codes the map validCodes holds (each with the value true)
    generated,  \* the codes GenerateCodeHandler has registered and answered
    served,     \* the last request the server routed: path, cookie, handler, context
    owner,      \* the user code whose storage root (getUserStoragePath) fsys is
    codesMutex, \* the worker holding codesMutex, Unlocked when none does
    workers     \* per worker of the concurrent server: position, request, locals

vars == <<mockDir, ext, result, fsys, resp, lastMerged,
          validCodes, generated, served, owner, codesMutex, workers>>

\* The state of the access-code store and of the server around the handlers.
authVars == <<validCodes, generated, served, owner, codesMutex, workers>>

(***************************************************************************)
(* Bounds of the model.                                                    *)
(***************************************************************************)
MaxEntries == 3     \* entries a mocked directory read yields

MaxFiles == 2       \* regular files in the storage tree after an upload

MaxBatch == 2       \* files of one upload request

MaxDel == 2         \* names of one delete request

MaxStored == 10     \* files a folder holds after an upload of plain names

MaxWorkers == 2     \* requests the concurrent server serves at a time

(***************************************************************************)
(* Characters and strings.                                                 *)
(***************************************************************************)
Ascii ==
    (" " :> 32) @@ ("+" :> 43) @@ ("-" :> 45) @@ ("." :> 46) @@ ("/" :> 47) @@
    ("0" :> 48) @@ ("1" :> 49) @@ ("2" :> 50) @@ ("3" :> 51) @@ ("4" :> 52) @@
    ("5" :> 53) @@ ("6" :> 54) @@ ("7" :> 55) @@ ("8" :> 56) @@ ("9" :> 57) @@
    ("D" :> 68) @@ ("F" :> 70) @@ ("P" :> 80) @@
    ("a" :> 97) @@ ("c" :> 99) @@ ("d" :> 100) @@ ("e" :> 101) @@ ("f" :> 102) @@
    ("l" :> 108) @@ ("p" :> 112) @@ ("t" :> 116) @@ ("x" :> 120)

Digits == {"0", "1", "2", "3", "4", "5", "6", "7", "8", "9"}

IsDigit(c) == c \in Digits

DigitVal(c) == Ascii[c] - Ascii["0"]

\* Go's s < t on strings: byte-wise lexicographic, a proper prefix first.
RECURSIVE LexLess(_, _)
LexLess(s, t) ==
    IF t = <<>> THEN FALSE
    ELSE IF s = <<>> THEN TRUE
    ELSE IF Ascii[Head(s)] # Ascii[Head(t)] THEN Ascii[Head(s)] < Ascii[Head(t)]
    ELSE LexLess(Tail(s), Tail(t))

\* strings.HasSuffix(s, suffix)
HasSuffix(s, suffix) ==
    /\ Len(s) >= Len(suffix)
    /\ SubSeq(s, Len(s) - Len(suffix) + 1, Len(s)) = suffix

\* strconv.Atoi(s): an optional sign, then one or more decimal digits and
\* nothing else ("5 " is a syntax error).  The names of the model are far
\* shorter than the 19 digits at which Atoi reports a range error.
RECURSIVE DecimalValue(_, _)
DecimalValue(s, acc) ==
    IF s = <<>> THEN acc ELSE DecimalValue(Tail(s), 10 * acc + DigitVal(Head(s)))

Atoi(s) ==
    LET signed == s # <<>> /\ Head(s) \in {"+", "-"}
        body   == IF signed THEN Tail(s) ELSE s
        ok     == body # <<>> /\ \A i \in 1..Len(body) : IsDigit(body[i])
    IN  IF ~ok THEN [err |-> TRUE, val |-> 0]
        ELSE [err |-> FALSE,
              val |-> IF signed /\ Head(s) = "-" THEN 0 - DecimalValue(body, 0)
                      ELSE DecimalValue(body, 0)]

\* The pattern as a bug-free listing would have it, `[0-9]+`: every maximal
\* digit run, left to right.
RECURSIVE DigitRunsFrom(_, _, _)
DigitRunsFrom(s, i, run) ==
    IF i > Len(s) THEN (IF run = <<>> THEN <<>> ELSE <<run>>)
    ELSE IF IsDigit(s[i]) THEN DigitRunsFrom(s, i + 1, Append(run, s[i]))
    ELSE (IF run = <<>> THEN <<>> ELSE <<run>>) \o DigitRunsFrom(s, i + 1, <<>>)

FindAllDigitRuns(s) == DigitRunsFrom(s, 1, <<>>)

\* re.FindAllString(s, -1) for re = regexp.MustCompile(`[0-9] `): the pattern
\* is one digit followed by one space; matches are leftmost, non-overlapping.
RECURSIVE FindAllFrom(_, _)
FindAllFrom(s, i) ==
    IF i > Len(s) THEN <<>>
    ELSE IF i + 1 <= Len(s) /\ IsDigit(s[i]) /\ s[i + 1] = " "
         THEN <<SubSeq(s, i, i + 1)>> \o FindAllFrom(s, i + 2)
         ELSE FindAllFrom(s, i + 1)

reFindAllString(s) == FindAllFrom(s, 1)

\* A comparison whose fallback answers "not less" instead of comparing the names.
lessNoFallback(a, b) ==
    LET foundN1 == reFindAllString(a)
        foundN2 == reFindAllString(b)
    IN  IF Len(foundN1) = 0 \/ Len(foundN2) = 0 THEN FALSE
        ELSE LET n1 == Atoi(foundN1[1])
                 n2 == Atoi(foundN2[1])
             IN  IF n1.err \/ n2.err THEN FALSE ELSE n1.val < n2.val

\* The less function handed to sort.Slice, on the two names it compares.
less(a, b) ==
    LET foundN1 == reFindAllString(a)
        foundN2 == reFindAllString(b)
    IN  IF Len(foundN1) = 0 \/ Len(foundN2) = 0 THEN LexLess(a, b)
        ELSE LET n1 == Atoi(foundN1[1])
                 n2 == Atoi(foundN2[1])
             IN  IF n1.err \/ n2.err THEN LexLess(a, b) ELSE n1.val < n2.val

\* sort.Slice on at most 12 elements is an insertion sort (pdqsort_func,
\* maxInsertion = 12): element i sinks while it is less than its predecessor.
Swap(data, i, j) == [data EXCEPT ![i] = data[j], ![j] = data[i]]

RECURSIVE Sink(_, _)
Sink(data, j) ==
    IF j > 1 /\ less(data[j], data[j - 1]) THEN Sink(Swap(data, j, j - 1), j - 1)
    ELSE data

RECURSIVE InsertionSortFrom(_, _)
InsertionSortFrom(data, i) ==
    IF i > Len(data) THEN data ELSE InsertionSortFrom(Sink(data, i), i + 1)

sortSlice(data) == InsertionSortFrom(data, 2)

\* A filter that forgets to skip directories.
matchedFilesWithDirs(entries, e) ==
    LET keep(file) == HasSuffix(file.name, e)
        kept == SelectSeq(entries, keep)
    IN  [i \in 1..Len(kept) |-> kept[i].name]

\* The filter loop of ListFilesWithExtension over the entries read.
RECURSIVE matchedFiles(_, _)
matchedFiles(entries, e) ==
    IF entries = <<>> THEN <<>>
    ELSE LET file == Head(entries)
         IN  (IF ~file.isDir /\ HasSuffix(file.name, e) THEN <<file.name>> ELSE <<>>)
             \o matchedFiles(Tail(entries), e)

\* ListFilesWithExtension(dir, ext), given what osReadDir(dir) returned.
ListFilesWithExtension(rd, e) ==
    IF rd.err THEN [files |-> <<>>, err |-> TRUE]
    ELSE [files |-> sortSlice(matchedFiles(rd.entries, e)), err |-> FALSE]


(***************************************************************************)
(* Paths and the storage tree.                                             *)
(***************************************************************************)
\* strings.Split(s, sep) for a one-character separator.
RECURSIVE SplitFrom(_, _, _)
SplitFrom(s, sep, cur) ==
    IF s = <<>> THEN <<cur>>
    ELSE IF Head(s) = sep THEN <<cur>> \o SplitFrom(Tail(s), sep, <<>>)
    ELSE SplitFrom(Tail(s), sep, Append(cur, Head(s)))

Split(s, sep) == SplitFrom(s, sep, <<>>)

DotDot == <<".", ".">>

\* filepath.Clean on the components of a path below the storage root: empty
\* and "." components vanish, ".." removes the component before it.
RECURSIVE Clean(_, _)
Clean(comps, acc) ==
    IF comps = <<>> THEN acc
    ELSE LET c == Head(comps)
         IN  IF c = <<>> \/ c = <<".">> THEN Clean(Tail(comps), acc)
             ELSE IF c = DotDot /\ acc # <<>> /\ acc[Len(acc)] # DotDot
                  THEN Clean(Tail(comps), SubSeq(acc, 1, Len(acc) - 1))
                  ELSE Clean(Tail(comps), Append(acc, c))

RECURSIVE SplitAll(_)
SplitAll(elems) ==
    IF elems = <<>> THEN <<>> ELSE Split(Head(elems), "/") \o SplitAll(Tail(elems))

\* filepath.Join(base, elems...): base is a cleaned path, elems are strings.
JoinPath(base, elems) == Clean(base \o SplitAll(elems), <<>>)

Dir == [isDir |-> TRUE, src |-> <<>>]

\* A regular file; src is the ordered input paths a merged output was made
\* from, and empty for an uploaded file.
File(src) == [isDir |-> FALSE, src |-> src]

EmptyFS == [p \in {} |-> Dir]

Exists(fs, p) == p \in DOMAIN fs

IsDirAt(fs, p) == Exists(fs, p) /\ fs[p].isDir

IsFileAt(fs, p) == Exists(fs, p) /\ ~fs[p].isDir

Parent(p) == SubSeq(p, 1, Len(p) - 1)

\* The regular files of the storage tree.
StoredFiles(fs) == {p \in DOMAIN fs : ~fs[p].isDir}

Children(fs, d) == {p \in DOMAIN fs : Len(p) = Len(d) + 1 /\ Parent(p) = d}

Put(fs, p, node) == [q \in DOMAIN fs \cup {p} |-> IF q = p THEN node ELSE fs[q]]

RemoveAll(fs, ps) == [q \in DOMAIN fs \ ps |-> fs[q]]

\* os.ReadDir returns the entries sorted by filename.
RECURSIVE SortedByName(_)
SortedByName(ps) ==
    IF ps = {} THEN <<>>
    ELSE LET first == CHOOSE p \in ps :
                        \A q \in ps \ {p} : LexLess(p[Len(p)], q[Len(q)])
         IN  <<first>> \o SortedByName(ps \ {first})

\* osReadDir(dir) = os.ReadDir on the storage tree.
ReadDir(fs, d) ==
    IF ~IsDirAt(fs, d) THEN [entries |-> <<>>, err |-> TRUE]
    ELSE LET ps == SortedByName(Children(fs, d))
         IN  [entries |-> [i \in 1..Len(ps) |->
                              [name |-> ps[i][Len(ps[i])], isDir |-> fs[ps[i]].isDir]],
              err |-> FALSE]

\* os.MkdirAll(path): every missing prefix becomes a directory; it fails when
\* a prefix is a regular file.
MkdirAll(fs, p) ==
    LET prefixes == {SubSeq(p, 1, n) : n \in 0..Len(p)}
    IN  IF \E q \in prefixes : IsFileAt(fs, q) THEN [fs |-> fs, err |-> TRUE]
        ELSE [fs |-> [q \in DOMAIN fs \cup prefixes |->
                         IF q \in DOMAIN fs THEN fs[q] ELSE Dir],
              err |-> FALSE]

PdfExt == <<".", "p", "d", "f">>

(***************************************************************************)
(* The handlers, for one authenticated user: each action is one request,   *)
(* from its first check to its response.                                   *)
(***************************************************************************)
NoResult == [called |-> FALSE, files |-> <<>>, err |-> FALSE]

\* A request and its response: the handler, the request's method, folder and
\* file names, the status, the body (out), the error the body reports, the
\* calls made of the external merge, and the paths the request removed.
Response(op, method, folder, req, status) ==
    [op |-> op, method |-> method, folder |-> folder, req |-> req,
     status |-> status, out |-> <<>>, error |-> "", calls |-> <<>>, removed |-> {}]

NoResp == Response("none", "", <<>>, <<>>, 0)

DigitChars == <<"0", "1", "2", "3", "4", "5", "6", "7", "8", "9">>

\* fmt.Sprintf("%d", n) for n >= 0
RECURSIVE Itoa(_)
Itoa(n) ==
    IF n < 10 THEN <<DigitChars[n + 1]>>
    ELSE Itoa(n \div 10) \o <<DigitChars[(n % 10) + 1]>>

\* folderPath := filepath.Join(userStoragePath, folder)
FolderPath(folder) == JoinPath(<<>>, <<folder>>)

\* A numbering that takes the loop index as it is, without the + 1.
FinalNameZeroBased(filename, i, counter) ==
    LET numStr == Split(filename, "-")[1]
    IN  IF Atoi(numStr).err THEN Itoa(i - 1 + counter) \o <<"-">> \o filename
        ELSE filename

\* The name the i-th file of a batch (i = 1 for the first) is stored under.
FinalName(filename, i, counter) ==
    LET numStr == Split(filename, "-")[1]
    IN  IF Atoi(numStr).err THEN Itoa(i + counter) \o <<"-">> \o filename
        ELSE filename

NoFail == [at |-> 0, kind |-> "none"]

\* A loop that answers 500 for a file it cannot store and still stores the
\* files after it.
RECURSIVE uploadFilesSkipFailed(_, _, _, _, _, _, _)
uploadFilesSkipFailed(fs, folderPath, counter, files, i, fail, stored) ==
    IF i > Len(files)
    THEN [fs |-> fs, status |-> IF fail.at = 0 THEN 200 ELSE 500, stored |-> stored]
    ELSE LET filename == FinalName(files[i], i, counter)
             dst      == JoinPath(folderPath, <<filename>>)
         IN  IF fail.at = i \/ IsDirAt(fs, dst)
             THEN uploadFilesSkipFailed(fs, folderPath, counter, files, i + 1,
                                        [fail EXCEPT !.at = i], stored)
             ELSE uploadFilesSkipFailed(Put(fs, dst, File(<<>>)), folderPath, counter,
                                        files, i + 1, fail, Append(stored, filename))

\* The loop of UploadHandler over the files of the form, from the i-th on;
\* fail names the file at which the environment fails and the call that fails.
RECURSIVE uploadFiles(_, _, _, _, _, _, _)
uploadFiles(fs, folderPath, counter, files, i, fail, stored) ==
    IF i > Len(files) THEN [fs |-> fs, status |-> 200, stored |-> stored]
    ELSE IF fail.at = i /\ fail.kind = "open"
         THEN [fs |-> fs, status |-> 500, stored |-> stored]
    ELSE LET filename == FinalName(files[i], i, counter)
             dst      == JoinPath(folderPath, <<filename>>)
         IN  IF IsDirAt(fs, dst) \/ (fail.at = i /\ fail.kind = "create")
             THEN [fs |-> fs, status |-> 500, stored |-> stored]
             ELSE IF fail.at = i /\ fail.kind = "copy"
                  THEN [fs |-> Put(fs, dst, File(<<>>)), status |-> 500,
                        stored |-> Append(stored, filename)]
                  ELSE uploadFiles(Put(fs, dst, File(<<>>)), folderPath, counter,
                                   files, i + 1, fail, Append(stored, filename))

UploadHandler(method, folder, files, parseOK, fail) ==
    /\ UNCHANGED <<mockDir, ext, result, lastMerged>>
    /\ IF method # "POST"
       THEN /\ resp' = Response("upload", method, folder, files, 405)
            /\ UNCHANGED fsys
       ELSE IF folder = <<>>
       THEN /\ resp' = Response("upload", method, folder, files, 400)
            /\ UNCHANGED fsys
       ELSE LET folderPath == FolderPath(folder)
                mk         == MkdirAll(fsys, folderPath)
                destFiles  == ListFilesWithExtension(ReadDir(mk.fs, folderPath), PdfExt)
                counter    == Len(destFiles.files)
                done       == uploadFiles(mk.fs, folderPath, counter, files, 1, fail, <<>>)
            IN  IF mk.err
                THEN /\ resp' = Response("upload", method, folder, files, 500)
                     /\ UNCHANGED fsys
                ELSE IF destFiles.err \/ ~parseOK
                THEN /\ resp' = Response("upload", method, folder, files, 400)
                     /\ fsys' = mk.fs
                ELSE /\ resp' = [Response("upload", method, folder, files, done.status)
                                      EXCEPT !.out = done.stored]
                     /\ fsys' = done.fs

\* json.NewEncoder(w).Encode(files): a slice nothing was appended to is nil
\* and is encoded as null, any other as the array of its names.
jsonEncode(files) ==
    IF files = <<>> THEN [null |-> TRUE, array |-> <<>>]
    ELSE [null |-> FALSE, array |-> files]

ListHandler(folder) ==
    /\ UNCHANGED <<mockDir, ext, result, fsys, lastMerged>>
    /\ IF folder = <<>>
       THEN resp' = Response("list", "GET", folder, <<>>, 400)
       ELSE LET files == ListFilesWithExtension(ReadDir(fsys, FolderPath(folder)), PdfExt)
            IN  IF files.err
                THEN resp' = Response("list", "GET", folder, <<>>, 500)
                ELSE resp' = [Response("list", "GET", folder, <<>>, 200)
                                 EXCEPT !.out = <<jsonEncode(files.files)>>]

\* api.MergeCreateFile(inFiles, outFile, false, nil): the external merge.  It
\* creates or replaces outFile, which needs outFile's directory to exist and
\* outFile not to be a directory; ok is whether the library accepts the inputs.
MergeCreateFile(fs, inFiles, outFile, ok) ==
    IF ok /\ IsDirAt(fs, Parent(outFile)) /\ ~IsDirAt(fs, outFile)
    THEN [fs |-> Put(fs, outFile, File(inFiles)), err |-> FALSE]
    ELSE [fs |-> fs, err |-> TRUE]

\* outputFilePath := filepath.Join(folderPath, "../", folder+".pdf")
outputFilePath(folder) ==
    JoinPath(FolderPath(folder), <<<<".", ".", "/">>, folder \o PdfExt>>)

\* An input list in the reverse of the listing's order.
filesToJoinReversed(folderPath, files) ==
    [i \in 1..Len(files) |-> JoinPath(folderPath, <<files[Len(files) + 1 - i]>>)]

\* filesToJoin[i] = filepath.Join(folderPath, files[i])
filesToJoin(folderPath, files) ==
    [i \in 1..Len(files) |-> JoinPath(folderPath, <<files[i]>>)]

\* A merge that hands an empty input list to the library instead of failing.
joinPDFsNoInputCheck(fs, folder, mergeOK) ==
    LET folderPath == FolderPath(folder)
        files      == ListFilesWithExtension(ReadDir(fs, folderPath), PdfExt)
        inFiles    == filesToJoin(folderPath, files.files)
        outFile    == outputFilePath(folder)
        merge      == MergeCreateFile(fs, inFiles, outFile, mergeOK)
    IN  IF files.err THEN [fs |-> fs, err |-> "readdir", calls |-> <<>>]
        ELSE [fs |-> merge.fs, err |-> IF merge.err THEN "merge" ELSE "",
              calls |-> <<[inFiles |-> inFiles, outFile |-> outFile]>>]

\* joinPDFs(path, folder): the tree afterwards, the error ("" for nil) and the
\* calls made of the external merge.
joinPDFs(fs, folder, mergeOK) ==
    LET folderPath == FolderPath(folder)
        files      == ListFilesWithExtension(ReadDir(fs, folderPath), PdfExt)
        inFiles    == filesToJoin(folderPath, files.files)
        outFile    == outputFilePath(folder)
        merge      == MergeCreateFile(fs, inFiles, outFile, mergeOK)
    IN  IF files.err THEN [fs |-> fs, err |-> "readdir", calls |-> <<>>]
        ELSE IF Len(files.files) = 0
        THEN [fs |-> fs, err |-> "no se encontraron archivos PDF", calls |-> <<>>]
        ELSE [fs |-> merge.fs, err |-> IF merge.err THEN "merge" ELSE "",
              calls |-> <<[inFiles |-> inFiles, outFile |-> outFile]>>]

GenerateHandler(method, folder, mergeOK) ==
    /\ UNCHANGED <<mockDir, ext, result>>
    /\ IF method # "POST"
       THEN /\ resp' = Response("generate", method, folder, <<>>, 405)
            /\ UNCHANGED <<fsys, lastMerged>>
       ELSE IF folder = <<>>
       THEN /\ resp' = Response("generate", method, folder, <<>>, 400)
            /\ UNCHANGED <<fsys, lastMerged>>
       ELSE LET joined == joinPDFs(fsys, folder, mergeOK)
            IN  /\ resp' = [Response("generate", method, folder, <<>>,
                                      IF joined.err # "" THEN 500 ELSE 200)
                                EXCEPT !.error = joined.err, !.calls = joined.calls]
                /\ fsys' = joined.fs
                /\ lastMerged' = IF joined.err # "" THEN lastMerged
                                 ELSE [lastMerged EXCEPT ![folder] = joined.calls[1].inFiles]

\* pdfPath := filepath.Join(userStoragePath, folder+".pdf")
pdfPath(folder) == JoinPath(<<>>, <<folder \o PdfExt>>)

\* http.ServeFile: 404 for a missing path, the bytes of a file (here the
\* inputs it was merged from), a listing page for a directory.
DownloadHandler(folder) ==
    /\ UNCHANGED <<mockDir, ext, result, fsys, lastMerged>>
    /\ IF folder = <<>>
       THEN resp' = Response("download", "GET", folder, <<>>, 400)
       ELSE IF ~Exists(fsys, pdfPath(folder))
       THEN resp' = Response("download", "GET", folder, <<>>, 404)
       ELSE resp' = [Response("download", "GET", folder, <<>>, 200)
                        EXCEPT !.out = fsys[pdfPath(folder)].src]

\* A loop that skips a missing name and carries on with the names after it.
RECURSIVE deleteFilesSkipMissing(_, _, _)
deleteFilesSkipMissing(fs, folderPath, files) ==
    IF files = <<>> THEN [fs |-> fs, status |-> 200]
    ELSE LET target == JoinPath(folderPath, <<Head(files)>>)
             rest   == deleteFilesSkipMissing(RemoveAll(fs, {target} \cap StoredFiles(fs)),
                                              folderPath, Tail(files))
         IN  IF ~IsFileAt(fs, target) THEN [fs |-> rest.fs, status |-> 400]
             ELSE rest

\* A loop that checks every name and removes only the last one.
RECURSIVE deleteFilesLastOnly(_, _, _)
deleteFilesLastOnly(fs, folderPath, files) ==
    IF files = <<>> THEN [fs |-> fs, status |-> 200]
    ELSE LET target == JoinPath(folderPath, <<Head(files)>>)
         IN  IF ~IsFileAt(fs, target) THEN [fs |-> fs, status |-> 400]
             ELSE IF Len(files) = 1 THEN [fs |-> RemoveAll(fs, {target}), status |-> 200]
             ELSE deleteFilesLastOnly(fs, folderPath, Tail(files))

\* The loop of DeleteFilesHandler over the names of a non-empty list: the
\* first name that is not a file of the folder aborts it with 400, the files
\* removed before it staying removed.
RECURSIVE deleteFiles(_, _, _)
deleteFiles(fs, folderPath, files) ==
    IF files = <<>> THEN [fs |-> fs, status |-> 200]
    ELSE LET target == JoinPath(folderPath, <<Head(files)>>)
         IN  IF ~IsFileAt(fs, target) THEN [fs |-> fs, status |-> 400]
             ELSE deleteFiles(RemoveAll(fs, {target}), folderPath, Tail(files))

\* An empty list read as "nothing to delete".
deleteAllFilesNoOp(fs, folderPath) ==
    IF ~IsDirAt(fs, folderPath) THEN [fs |-> fs, status |-> 500]
    ELSE [fs |-> fs, status |-> 200]

\* An empty list: every file of the folder is removed.
deleteAllFiles(fs, folderPath) ==
    IF ~IsDirAt(fs, folderPath) THEN [fs |-> fs, status |-> 500]
    ELSE [fs |-> RemoveAll(fs, {p \in Children(fs, folderPath) : ~fs[p].isDir}),
          status |-> 200]

DeleteFilesHandler(method, folder, files) ==
    /\ UNCHANGED <<mockDir, ext, result, lastMerged>>
    /\ IF method # "DELETE"
       THEN /\ resp' = Response("delete", method, folder, files, 405)
            /\ UNCHANGED fsys
       ELSE IF folder = <<>>
       THEN /\ resp' = Response("delete", method, folder, files, 400)
            /\ UNCHANGED fsys
       ELSE LET folderPath == FolderPath(folder)
                done == IF files = <<>> THEN deleteAllFiles(fsys, folderPath)
                        ELSE deleteFiles(fsys, folderPath, files)
            IN  /\ resp' = [Response("delete", method, folder, files, done.status)
                                EXCEPT !.removed = DOMAIN fsys \ DOMAIN done.fs]
                /\ fsys' = done.fs

(***************************************************************************)
(* The access-code store, the handlers around it and the routes of main.   *)
(* Access codes are strings like the file names; paths of requests and     *)
(* names of handlers are plain strings.                                    *)
(***************************************************************************)
\* validCodes = map[string]bool{"alex": true}
SeededCodes == { <<"a", "l", "e", "x">> }

\* base64.StdEncoding: the alphabet, and "=" as padding.
Base64Alphabet ==
    <<"A", "B", "C", "D", "E", "F", "G", "H", "I", "J", "K", "L", "M",
      "N", "O", "P", "Q", "R", "S", "T", "U", "V", "W", "X", "Y", "Z",
      "a", "b", "c", "d", "e", "f", "g", "h", "i", "j", "k", "l", "m",
      "n", "o", "p", "q", "r", "s", "t", "u", "v", "w", "x", "y", "z",
      "0", "1", "2", "3", "4", "5", "6", "7", "8", "9", "+", "/">>

\* []byte(s)
Bytes(s) == [i \in 1..Len(s) |-> Ascii[s[i]]]

\* base64.StdEncoding.EncodeToString(src): three bytes give four characters,
\* a last group of one or two bytes is padded.
RECURSIVE EncodeToString(_)
EncodeToString(src) ==
    LET sym(n) == Base64Alphabet[n + 1]
    IN  IF Len(src) = 0 THEN <<>>
        ELSE IF Len(src) = 1
        THEN <<sym(src[1] \div 4), sym((src[1] % 4) * 16), "=", "=">>
        ELSE IF Len(src) = 2
        THEN <<sym(src[1] \div 4), sym((src[1] % 4) * 16 + src[2] \div 16),
               sym((src[2] % 16) * 4), "=">>
        ELSE <<sym(src[1] \div 4), sym((src[1] % 4) * 16 + src[2] \div 16),
               sym((src[2] % 16) * 4 + src[3] \div 64), sym(src[3] % 64)>>
             \o EncodeToString(SubSeq(src, 4, Len(src)))

\* code := base64.StdEncoding.EncodeToString([]byte(name + date))
generateCode(name, date) == EncodeToString(Bytes(name \o date))

\* isValid := validCodes[accessCode]: a key the map does not hold reads false.
validate(codes, accessCode) == accessCode \in codes

\* A handler that answers the code without storing it in the map.
GenerateCodeHandlerNoInsert(method, parseOK, name, date) ==
    /\ UNCHANGED <<mockDir, ext, result, fsys, lastMerged, validCodes>>
    /\ IF method # "POST"
       THEN /\ resp' = Response("generate-code", method, <<>>, <<name, date>>, 405)
            /\ UNCHANGED generated
       ELSE IF ~parseOK \/ name = <<>> \/ date = <<>>
       THEN /\ resp' = Response("generate-code", method, <<>>, <<name, date>>, 400)
            /\ UNCHANGED generated
       ELSE LET code == generateCode(name, date)
            IN  /\ generated' = generated \cup {code}
                /\ resp' = [Response("generate-code", method, <<>>, <<name, date>>, 200)
                                EXCEPT !.out = <<code>>]

GenerateCodeHandler(method, parseOK, name, date) ==
    /\ UNCHANGED <<mockDir, ext, result, fsys, lastMerged>>
    /\ IF method # "POST"
       THEN /\ resp' = Response("generate-code", method, <<>>, <<name, date>>, 405)
            /\ UNCHANGED <<validCodes, generated>>
       ELSE IF ~parseOK \/ name = <<>> \/ date = <<>>
       THEN /\ resp' = Response("generate-code", method, <<>>, <<name, date>>, 400)
            /\ UNCHANGED <<validCodes, generated>>
       ELSE LET code == generateCode(name, date)
            IN  /\ validCodes' = validCodes \cup {code}
                /\ generated' = generated \cup {code}
                /\ resp' = [Response("generate-code", method, <<>>, <<name, date>>, 200)
                                EXCEPT !.out = <<code>>]

\* LoginHandler: 303 with the cookie auth_code = accessCode (out) for a valid
\* code.
LoginHandler(method, parseOK, accessCode) ==
    /\ UNCHANGED <<mockDir, ext, result, fsys, lastMerged, validCodes, generated>>
    /\ IF method # "POST"
       THEN resp' = Response("login", method, <<>>, <<accessCode>>, 405)
       ELSE IF ~parseOK \/ accessCode = <<>>
       THEN resp' = Response("login", method, <<>>, <<accessCode>>, 400)
       ELSE IF ~validate(validCodes, accessCode)
       THEN resp' = Response("login", method, <<>>, <<accessCode>>, 401)
       ELSE resp' = [Response("login", method, <<>>, <<accessCode>>, 303)
                        EXCEPT !.out = <<accessCode>>]

\* viewHandler answers a page and changes nothing.
viewHandler(method) ==
    /\ UNCHANGED <<mockDir, ext, result, fsys, lastMerged, validCodes, generated>>
    /\ resp' = Response("view", method, <<>>, <<>>, 200)

NoCookie == [present |-> FALSE, value |-> <<>>]

Cookie(value) == [present |-> TRUE, value |-> value]

\* A request as the server sees it; a handler reads the fields it needs.
BlankRequest ==
    [method |-> "GET", cookie |-> NoCookie, folder |-> <<>>, files |-> <<>>,
     parseOK |-> TRUE, fail |-> NoFail, mergeOK |-> TRUE,
     name |-> <<>>, date |-> <<>>, accessCode |-> <<>>]

\* The routing of a request: its path and cookie, the handler it was handed
\* to ("none" when to none) and the user code put in its context.
Served(path, cookie, handler, userCode) ==
    [path |-> path, cookie |-> cookie, handler |-> handler, userCode |-> userCode]

NoServed == Served("", NoCookie, "none", <<>>)

\* handler.ServeHTTP(w, r) for the handler functions of package pdf and main.
Handle(handler, rq) ==
    CASE handler = "viewHandler" -> viewHandler(rq.method)
      [] handler = "GenerateCodeHandler" ->
            GenerateCodeHandler(rq.method, rq.parseOK, rq.name, rq.date)
      [] handler = "LoginHandler" ->
            LoginHandler(rq.method, rq.parseOK, rq.accessCode)
      [] handler = "UploadHandler" ->
            /\ UploadHandler(rq.method, rq.folder, rq.files, rq.parseOK, rq.fail)
            /\ UNCHANGED <<validCodes, generated>>
      [] handler = "ListHandler" ->
            /\ ListHandler(rq.folder)
            /\ UNCHANGED <<validCodes, generated>>
      [] handler = "GenerateHandler" ->
            /\ GenerateHandler(rq.method, rq.folder, rq.mergeOK)
            /\ UNCHANGED <<validCodes, generated>>
      [] handler = "DownloadHandler" ->
            /\ DownloadHandler(rq.folder)
            /\ UNCHANGED <<validCodes, generated>>
      [] handler = "DeleteFilesHandler" ->
            /\ DeleteFilesHandler(rq.method, rq.folder, rq.files)
            /\ UNCHANGED <<validCodes, generated>>

\* A gate that takes any cookie as proof, without looking its value up.
AuthMiddlewareCookieOnly(next, path, rq) ==
    IF ~rq.cookie.present
    THEN /\ resp' = Response("auth", rq.method, <<>>, <<>>, 401)
         /\ served' = Served(path, rq.cookie, "none", <<>>)
         /\ UNCHANGED <<mockDir, ext, result, fsys, lastMerged, validCodes, generated>>
    ELSE /\ served' = Served(path, rq.cookie, next, rq.cookie.value)
         /\ Handle(next, rq)

\* AuthMiddleware(next), serving a request: 401 without the cookie auth_code
\* or with a value the map does not hold; otherwise next runs with the value
\* as user code in the request's context.
AuthMiddleware(next, path, rq) ==
    IF ~rq.cookie.present \/ ~validate(validCodes, rq.cookie.value)
    THEN /\ resp' = Response("auth", rq.method, <<>>, <<>>, 401)
         /\ served' = Served(path, rq.cookie, "none", <<>>)
         /\ UNCHANGED <<mockDir, ext, result, fsys, lastMerged, validCodes, generated>>
    ELSE /\ served' = Served(path, rq.cookie, next, rq.cookie.value)
         /\ Handle(next, rq)

\* The patterns main registers with http.HandleFunc, each with its handler
\* and whether the handler is wrapped in AuthMiddleware.
ServeMux ==
    ("/view/" :> [handler |-> "viewHandler", gated |-> FALSE]) @@
    ("/generate-code" :> [handler |-> "GenerateCodeHandler", gated |-> FALSE]) @@
    ("/login" :> [handler |-> "LoginHandler", gated |-> FALSE]) @@
    ("/upload" :> [handler |-> "UploadHandler", gated |-> TRUE]) @@
    ("/list" :> [handler |-> "ListHandler", gated |-> TRUE]) @@
    ("/generate" :> [handler |-> "GenerateHandler", gated |-> TRUE]) @@
    ("/download" :> [handler |-> "DownloadHandler", gated |-> TRUE])

\* http.DefaultServeMux serving a request: a path no pattern matches gets
\* 404 page not found.
ServeHTTP(path, rq) ==
    /\ UNCHANGED <<owner, codesMutex, workers>>
    /\ IF path \notin DOMAIN ServeMux
       THEN /\ resp' = Response("notfound", rq.method, <<>>, <<>>, 404)
            /\ served' = Served(path, rq.cookie, "none", <<>>)
            /\ UNCHANGED <<mockDir, ext, result, fsys, lastMerged, validCodes, generated>>
       ELSE IF ServeMux[path].gated
       THEN AuthMiddleware(ServeMux[path].handler, path, rq)
       ELSE /\ served' = Served(path, rq.cookie, ServeMux[path].handler, <<>>)
            /\ Handle(ServeMux[path].handler, rq)

(***************************************************************************)
(* The requests the model sends.  An input a request never reads (the      *)
(* files of a request refused for its method, say) takes one value only.   *)
(***************************************************************************)
FolderF == <<"f">>

FolderFF == <<"f", "/", "f">>

Folders == {FolderF}

NestedFolders == {FolderF, FolderFF}

UploadNames ==
    { <<"d", ".", "p", "d", "f">>,
      <<"1", "2", "-", "d", ".", "p", "d", "f">> }

DeleteNames ==
    { <<"1", "-", "d", ".", "p", "d", "f">>,
      <<"2", "-", "d", ".", "p", "d", "f">>,
      <<"1", "2", "-", "d", ".", "p", "d", "f">> }

\* Sequences of at most n distinct elements of S.
RECURSIVE DistinctSeqs(_, _)
DistinctSeqs(S, n) ==
    IF n = 0 THEN {<<>>}
    ELSE {<<>>} \cup UNION {{<<x>> \o t : t \in DistinctSeqs(S \ {x}, n - 1)} : x \in S}

\* Sequences of at most n elements of S.
RECURSIVE SeqsUpTo(_, _)
SeqsUpTo(S, n) ==
    IF n = 0 THEN {<<>>}
    ELSE {<<>>} \cup {<<x>> \o t : x \in S, t \in SeqsUpTo(S, n - 1)}

FailKinds == {"open", "create", "copy"}

UploadRequests(folders, names, kinds) ==
    {[method |-> "GET", folder |-> f, files |-> <<>>, parseOK |-> TRUE, fail |-> NoFail] :
        f \in folders}
    \cup {[method |-> "POST", folder |-> <<>>, files |-> <<>>, parseOK |-> TRUE,
           fail |-> NoFail]}
    \cup {[method |-> "POST", folder |-> f, files |-> <<>>, parseOK |-> FALSE,
           fail |-> NoFail] : f \in folders}
    \cup {rq \in [method : {"POST"}, folder : folders,
                  files : DistinctSeqs(names, MaxBatch), parseOK : {TRUE},
                  fail : {NoFail} \cup [at : 1..MaxBatch, kind : kinds]] :
            rq.fail.at <= Len(rq.files)}

DeleteRequests(folders, names) ==
    {[method |-> "POST", folder |-> f, files |-> <<>>] : f \in folders}
    \cup {[method |-> "DELETE", folder |-> <<>>, files |-> <<>>]}
    \cup [method : {"DELETE"}, folder : folders, files : SeqsUpTo(names, MaxDel)]

GenerateRequests(folders, outcomes) ==
    {[method |-> "GET", folder |-> f, mergeOK |-> TRUE] : f \in folders}
    \cup {[method |-> "POST", folder |-> <<>>, mergeOK |-> TRUE]}
    \cup [method : {"POST"}, folder : folders, mergeOK : outcomes]

\* The user code the tests of the handlers put in the request's context.
TestUser == <<"t", "e", "s", "t", "U", "s", "e", "r">>

Unlocked == 0

\* The store and the server at process start, for handlers called directly.
InitAuth ==
    /\ validCodes = SeededCodes
    /\ generated = {}
    /\ served = NoServed
    /\ codesMutex = Unlocked
    /\ workers = <<>>

Init ==
    /\ mockDir = [entries |-> <<>>, err |-> FALSE]
    /\ ext = PdfExt
    /\ result = NoResult
    /\ fsys = EmptyFS
    /\ resp = NoResp
    /\ lastMerged = [f \in NestedFolders |-> <<>>]
    /\ owner = TestUser
    /\ InitAuth

Upload(folders, names, kinds) ==
    \E rq \in UploadRequests(folders, names, kinds) :
        /\ Cardinality(StoredFiles(fsys)) + Len(rq.files) <= MaxFiles
        /\ UploadHandler(rq.method, rq.folder, rq.files, rq.parseOK, rq.fail)
        /\ UNCHANGED authVars

List(folders) ==
    \E folder \in folders \cup {<<>>} : ListHandler(folder) /\ UNCHANGED authVars

Delete(folders, names) ==
    \E rq \in DeleteRequests(folders, names) :
        DeleteFilesHandler(rq.method, rq.folder, rq.files) /\ UNCHANGED authVars

Generate(folders, outcomes) ==
    \E rq \in GenerateRequests(folders, outcomes) :
        GenerateHandler(rq.method, rq.folder, rq.mergeOK) /\ UNCHANGED authVars

Download(folders) ==
    \E folder \in folders \cup {<<>>} : DownloadHandler(folder) /\ UNCHANGED authVars

Next ==
    \/ Upload(Folders, UploadNames, FailKinds)
    \/ List(Folders)
    \/ Delete(Folders, DeleteNames)
    \/ Generate(Folders, BOOLEAN)
    \/ Download(Folders)

Spec == Init /\ [][Next]_vars

\* Uploads, merges and downloads on folder names of one and of two
\* components, in an environment in which no file operation fails.
NextNested ==
    \/ Upload(NestedFolders, {<<"d", ".", "p", "d", "f">>}, {})
    \/ Generate(NestedFolders, {TRUE})
    \/ Download(NestedFolders)

SpecNested == Init /\ [][NextNested]_vars

\* Uploads of files whose names carry no sequence number and no digit, to
\* one folder, with listings in between; no delete and no failing file
\* operation.
PlainNames == { <<"c", ".", "p", "d", "f">>, <<"d", ".", "p", "d", "f">> }

UploadPlain ==
    \E rq \in UploadRequests(Folders, PlainNames, {}) :
        /\ Cardinality(StoredFiles(fsys)) + Len(rq.files) <= MaxStored
        /\ UploadHandler(rq.method, rq.folder, rq.files, rq.parseOK, rq.fail)
        /\ UNCHANGED authVars

NextOrder ==
    \/ UploadPlain
    \/ List(Folders)

SpecOrder == Init /\ [][NextOrder]_vars

(***************************************************************************)
(* The server of main, one request at a time: every request goes through   *)
(* the mux.  The storage tree is that of one user code, owner; requests    *)
(* with the cookie of another valid code act on another tree and are not   *)
(* sent.                                                                   *)
(***************************************************************************)
Garbage == <<"g", "a", "r", "b", "a", "g", "e">>

\* The (name, date) pairs sent to /generate-code; the last two give one code.
NameDatePairs ==
    { << <<"a", "l", "e", "x">>, <<"2", "0", "2", "4", "-", "0", "1", "-", "0", "1">> >>,
      << <<"a">>, <<"a", "d">> >>,
      << <<"a", "a">>, <<"d">> >> }

GeneratedCodes == {generateCode(p[1], p[2]) : p \in NameDatePairs}

AccessCodes == SeededCodes \cup GeneratedCodes \cup {Garbage}

Owners == SeededCodes \cup GeneratedCodes

Cookies(o) == {NoCookie, Cookie(Garbage), Cookie(o)}

ServerNames == { <<"d", ".", "p", "d", "f">> }

ServerDeleteNames == { <<"1", "-", "d", ".", "p", "d", "f">> }

\* The requests sent to a path by the client of user code o.
RequestsTo(path, o) ==
    CASE path = "/view/" -> {BlankRequest}
      [] path = "/generate-code" ->
            {[parseOK |-> FALSE, method |-> "POST"] @@ BlankRequest}
            \cup {[method |-> m, name |-> n, date |-> d] @@ BlankRequest :
                    m \in {"GET"}, n \in {<<"a">>}, d \in {<<"d">>}}
            \cup {[method |-> "POST", name |-> <<"a">>] @@ BlankRequest}
            \cup {[method |-> "POST", name |-> p[1], date |-> p[2]] @@ BlankRequest :
                    p \in NameDatePairs}
      [] path = "/login" ->
            {[parseOK |-> FALSE, method |-> "POST"] @@ BlankRequest}
            \cup {[method |-> m, accessCode |-> a] @@ BlankRequest :
                    m \in {"GET"}, a \in SeededCodes}
            \cup {[method |-> "POST"] @@ BlankRequest}
            \cup {[method |-> "POST", accessCode |-> a] @@ BlankRequest :
                    a \in AccessCodes}
      [] path = "/upload" ->
            {[cookie |-> c] @@ rq @@ BlankRequest :
                c \in Cookies(o), rq \in UploadRequests(Folders, ServerNames, {})}
      [] path = "/list" ->
            {[cookie |-> c, folder |-> f] @@ BlankRequest :
                c \in Cookies(o), f \in Folders \cup {<<>>}}
      [] path = "/delete" ->
            {[cookie |-> c] @@ rq @@ BlankRequest :
                c \in Cookies(o), rq \in DeleteRequests(Folders, ServerDeleteNames)}
      [] path = "/generate" ->
            {[cookie |-> c] @@ rq @@ BlankRequest :
                c \in Cookies(o), rq \in GenerateRequests(Folders, {TRUE})}
      [] path = "/download" ->
            {[cookie |-> c, folder |-> f] @@ BlankRequest :
                c \in Cookies(o), f \in Folders \cup {<<>>}}

InitServer ==
    /\ mockDir = [entries |-> <<>>, err |-> FALSE]
    /\ ext = PdfExt
    /\ result = NoResult
    /\ fsys = EmptyFS
    /\ resp = NoResp
    /\ lastMerged = [f \in NestedFolders |-> <<>>]
    /\ owner \in Owners
    /\ InitAuth

Request(path) ==
    \E rq \in RequestsTo(path, owner) :
        /\ Cardinality(StoredFiles(fsys)) + Len(rq.files) <= MaxFiles
        /\ ServeHTTP(path, rq)

NextServer ==
    \/ Request("/view/")
    \/ Request("/generate-code")
    \/ Request("/login")
    \/ Request("/upload")
    \/ Request("/list")
    \/ Request("/delete")
    \/ Request("/generate")
    \/ Request("/download")

SpecServer == InitServer /\ [][NextServer]_vars

(***************************************************************************)
(* The server of main with one goroutine (worker) per request.  A worker   *)
(* takes a request, runs its handler up to codesMutex.Lock(), then steps:  *)
(* Lock, the access to the map, Unlock, and the rest of the handler (the   *)
(* response, or next.ServeHTTP with its file operations).                  *)
(***************************************************************************)
Workers == 1..MaxWorkers

Idle == [pc |-> "idle", path |-> "", rq |-> BlankRequest, isValid |-> FALSE]

\* The function a worker is in: the handler registered for its path, or the
\* closure of AuthMiddleware around it.
Running(wk) ==
    IF wk.pc = "idle" THEN "none"
    ELSE IF ServeMux[wk.path].gated THEN "AuthMiddleware"
    ELSE ServeMux[wk.path].handler

\* The code a worker inserts (code) or looks up (accessCode).
CodeOf(wk) ==
    CASE Running(wk) = "GenerateCodeHandler" -> generateCode(wk.rq.name, wk.rq.date)
      [] Running(wk) = "LoginHandler" -> wk.rq.accessCode
      [] OTHER -> wk.rq.cookie.value

\* Whether the handler of a request returns before it reaches the lock.
ReturnsBeforeLock(path, rq) ==
    CASE path = "/generate-code" ->
            rq.method # "POST" \/ ~rq.parseOK \/ rq.name = <<>> \/ rq.date = <<>>
      [] path = "/login" ->
            rq.method # "POST" \/ ~rq.parseOK \/ rq.accessCode = <<>>
      [] OTHER -> ~rq.cookie.present

ConcurrentPairs == { << <<"a">>, <<"a", "d">> >> }

ConcurrentCodes == {generateCode(p[1], p[2]) : p \in ConcurrentPairs}

\* The requests sent to the concurrent server, each with its path.
ConcurrentRequests(o) ==
    {<<"/generate-code", [method |-> "POST", name |-> p[1], date |-> p[2]] @@ BlankRequest>> :
        p \in ConcurrentPairs}
    \cup {<<"/login", [method |-> "POST", accessCode |-> a] @@ BlankRequest>> :
            a \in ConcurrentCodes \cup {Garbage}}
    \cup {<<"/list", [cookie |-> c, folder |-> FolderF] @@ BlankRequest>> :
            c \in {NoCookie, Cookie(o)}}
    \cup {<<"/upload", [cookie |-> Cookie(o), method |-> "POST", folder |-> FolderF,
                        files |-> <<f>>] @@ BlankRequest>> : f \in ServerNames}

\* The files of the uploads being served.
RECURSIVE InFlightFiles(_, _)
InFlightFiles(ws, S) ==
    IF S = {} THEN 0
    ELSE LET w == CHOOSE x \in S : TRUE
         IN  Len(ws[w].rq.files) + InFlightFiles(ws, S \ {w})

InitConcurrent ==
    /\ mockDir = [entries |-> <<>>, err |-> FALSE]
    /\ ext = PdfExt
    /\ result = NoResult
    /\ fsys = EmptyFS
    /\ resp = NoResp
    /\ lastMerged = [f \in NestedFolders |-> <<>>]
    /\ owner \in SeededCodes \cup ConcurrentCodes
    /\ validCodes = SeededCodes
    /\ generated = {}
    /\ served = NoServed
    /\ codesMutex = Unlocked
    /\ workers = [w \in Workers |-> Idle]

\* A worker takes a request and runs its handler to the lock, or to the
\* return before it.
Accept(w) ==
    \E pr \in ConcurrentRequests(owner) :
        /\ workers[w].pc = "idle"
        /\ Cardinality(StoredFiles(fsys)) + InFlightFiles(workers, Workers)
             + Len(pr[2].files) <= MaxFiles
        /\ IF ReturnsBeforeLock(pr[1], pr[2])
           THEN ServeHTTP(pr[1], pr[2])
           ELSE /\ workers' = [workers EXCEPT ![w] = [pc |-> "lock", path |-> pr[1],
                                                       rq |-> pr[2], isValid |-> FALSE]]
                /\ UNCHANGED <<mockDir, ext, result, fsys, resp, lastMerged,
                               validCodes, generated, served, owner, codesMutex>>

\* A Lock that does not wait for the mutex to be free.
codesMutexLockNoWait(w) ==
    /\ workers[w].pc = "lock"
    /\ codesMutex' = w
    /\ workers' = [workers EXCEPT ![w].pc = "access"]
    /\ UNCHANGED <<mockDir, ext, result, fsys, resp, lastMerged,
                   validCodes, generated, served, owner>>

\* codesMutex.Lock(): blocks while another worker holds the mutex.
codesMutexLock(w) ==
    /\ workers[w].pc = "lock"
    /\ codesMutex = Unlocked
    /\ codesMutex' = w
    /\ workers' = [workers EXCEPT ![w].pc = "access"]
    /\ UNCHANGED <<mockDir, ext, result, fsys, resp, lastMerged,
                   validCodes, generated, served, owner>>

\* validCodes[code] = true
InsertCode(w) ==
    /\ workers[w].pc = "access"
    /\ Running(workers[w]) = "GenerateCodeHandler"
    /\ validCodes' = validCodes \cup {CodeOf(workers[w])}
    /\ workers' = [workers EXCEPT ![w].pc = "unlock"]
    /\ UNCHANGED <<mockDir, ext, result, fsys, resp, lastMerged,
                   generated, served, owner, codesMutex>>

\* isValid := validCodes[accessCode]
ReadCode(w) ==
    /\ workers[w].pc = "access"
    /\ Running(workers[w]) \in {"LoginHandler", "AuthMiddleware"}
    /\ workers' = [workers EXCEPT ![w].pc = "unlock",
                                  ![w].isValid = validate(validCodes, CodeOf(workers[w]))]
    /\ UNCHANGED <<mockDir, ext, result, fsys, resp, lastMerged,
                   validCodes, generated, served, owner, codesMutex>>

\* codesMutex.Unlock()
codesMutexUnlock(w) ==
    /\ workers[w].pc = "unlock"
    /\ codesMutex' = Unlocked
    /\ workers' = [workers EXCEPT ![w].pc = "respond"]
    /\ UNCHANGED <<mockDir, ext, result, fsys, resp, lastMerged,
                   validCodes, generated, served, owner>>

\* GenerateCodeHandler after the Unlock: the code is written to the response.
RespondGenerateCode(w) ==
    LET wk == workers[w]
    IN  /\ wk.pc = "respond"
        /\ Running(wk) = "GenerateCodeHandler"
        /\ resp' = [Response("generate-code", wk.rq.method, <<>>,
                             <<wk.rq.name, wk.rq.date>>, 200)
                        EXCEPT !.out = <<CodeOf(wk)>>]
        /\ generated' = generated \cup {CodeOf(wk)}
        /\ served' = Served(wk.path, wk.rq.cookie, "GenerateCodeHandler", <<>>)
        /\ workers' = [workers EXCEPT ![w] = Idle]
        /\ UNCHANGED <<mockDir, ext, result, fsys, lastMerged, validCodes, owner, codesMutex>>

\* LoginHandler after the Unlock: 401, or the cookie and the redirect.
RespondLogin(w) ==
    LET wk == workers[w]
    IN  /\ wk.pc = "respond"
        /\ Running(wk) = "LoginHandler"
        /\ resp' = IF ~wk.isValid
                   THEN Response("login", wk.rq.method, <<>>, <<wk.rq.accessCode>>, 401)
                   ELSE [Response("login", wk.rq.method, <<>>, <<wk.rq.accessCode>>, 303)
                            EXCEPT !.out = <<wk.rq.accessCode>>]
        /\ served' = Served(wk.path, wk.rq.cookie, "LoginHandler", <<>>)
        /\ workers' = [workers EXCEPT ![w] = Idle]
        /\ UNCHANGED <<mockDir, ext, result, fsys, lastMerged, validCodes, generated,
                       owner, codesMutex>>

\* AuthMiddleware after the Unlock: 401, or next.ServeHTTP with the user code
\* in the context.
CallNext(w) ==
    LET wk == workers[w]
        next == ServeMux[wk.path].handler
    IN  /\ wk.pc = "respond"
        /\ Running(wk) = "AuthMiddleware"
        /\ IF ~wk.isValid
           THEN /\ resp' = Response("auth", wk.rq.method, <<>>, <<>>, 401)
                /\ served' = Served(wk.path, wk.rq.cookie, "none", <<>>)
                /\ UNCHANGED <<mockDir, ext, result, fsys, lastMerged, validCodes, generated>>
           ELSE /\ served' = Served(wk.path, wk.rq.cookie, next, wk.rq.cookie.value)
                /\ Handle(next, wk.rq)
        /\ workers' = [workers EXCEPT ![w] = Idle]
        /\ UNCHANGED <<owner, codesMutex>>

NextConcurrent ==
    \E w \in Workers :
        \/ Accept(w)
        \/ codesMutexLock(w)
        \/ InsertCode(w)
        \/ ReadCode(w)
        \/ codesMutexUnlock(w)
        \/ RespondGenerateCode(w)
        \/ RespondLogin(w)
        \/ CallNext(w)

SpecConcurrent == InitConcurrent /\ [][NextConcurrent]_vars

(***************************************************************************)
(* The listing on its own: osReadDir is replaced by a mock that yields any *)
(* entries in any order (TestListFilesWithExtension), then                 *)
(* ListFilesWithExtension is called once.                                  *)
(***************************************************************************)
TxtExt == <<".", "t", "x", "t">>

Exts == {PdfExt, TxtExt}

FileEntry(name) == [name |-> name, isDir |-> FALSE]

DirEntry(name) == [name |-> name, isDir |-> TRUE]

\* The entries a mocked directory is drawn from.
EntryPool ==
    { FileEntry(<<"2", "-", "d", ".", "p", "d", "f">>),
      FileEntry(<<"1", "2", "-", "d", ".", "p", "d", "f">>),
      FileEntry(<<"2", "-", "a", ".", "p", "d", "f">>),
      FileEntry(<<"9", " ", "x", ".", "p", "d", "f">>),
      FileEntry(<<"1", "0", " ", "x", ".", "p", "d", "f">>),
      FileEntry(<<"c", ".", "p", "d", "f">>),
      FileEntry(<<"a", "1", ".", "p", "d", "f">>),
      FileEntry(<<"a", ".", "p", "d", "f">>),
      FileEntry(<<"d", ".", "t", "x", "t">>),
      FileEntry(<<"d", ".", "P", "D", "F">>),
      DirEntry(<<"e", ".", "p", "d", "f">>) }

\* The mocks of osReadDir a test case may install: any entries with distinct
\* names in any order, or an error.
MockReadDirs ==
    {[entries |-> es, err |-> FALSE] : es \in DistinctSeqs(EntryPool, MaxEntries)}
        \cup {[entries |-> <<>>, err |-> TRUE]}

InitList ==
    /\ mockDir \in MockReadDirs
    /\ ext \in Exts
    /\ result = NoResult
    /\ fsys = EmptyFS
    /\ resp = NoResp
    /\ lastMerged = <<>>
    /\ owner = TestUser
    /\ InitAuth

\* result, err := ListFilesWithExtension(tt.directory, tt.extension)
CallListFilesWithExtension ==
    /\ ~result.called
    /\ result' = [called |-> TRUE] @@ ListFilesWithExtension(mockDir, ext)
    /\ UNCHANGED <<mockDir, ext, fsys, resp, lastMerged>>
    /\ UNCHANGED authVars

NextList == CallListFilesWithExtension

SpecList == InitList /\ [][NextList]_vars

(***************************************************************************)
(* Claims about the listing.                                               *)
(***************************************************************************)
Listed == result.called /\ ~result.err

HasDigitRun(name) == FindAllDigitRuns(name) # <<>>

\* The integer of the first maximal digit run of a name that has one.
FirstInt(name) == Atoi(FindAllDigitRuns(name)[1]).val

EndsWith(s, suffix) == \E k \in 0..Len(s) : SubSeq(s, k + 1, Len(s)) = suffix

Reorderings(s) ==
    {[i \in 1..Len(s) |-> s[p[i]]] : p \in Permutations(1..Len(s))}

\* C1: any two listed names that both contain a digit run, with different
\* integers, appear with the smaller integer first.
C1_NumericOrder ==
    Listed =>
        \A i, j \in 1..Len(result.files) :
            (/\ i < j
             /\ HasDigitRun(result.files[i])
             /\ HasDigitRun(result.files[j])
             /\ FirstInt(result.files[i]) # FirstInt(result.files[j]))
            => FirstInt(result.files[i]) < FirstInt(result.files[j])

\* C2: the listing is exactly the entries that are not directories and whose
\* name ends with the extension, each once, and a readable directory never
\* yields an error (so no match gives the empty sequence).
C2_ExactFilter ==
    (result.called /\ ~mockDir.err) =>
        /\ ~result.err
        /\ {result.files[i] : i \in 1..Len(result.files)}
             = {mockDir.entries[k].name : k \in
                  {k \in 1..Len(mockDir.entries) :
                      /\ ~mockDir.entries[k].isDir
                      /\ EndsWith(mockDir.entries[k].name, ext)}}
        /\ \A i, j \in 1..Len(result.files) :
              i # j => result.files[i] # result.files[j]

C2_Witness ==
    /\ Listed
    /\ Len(result.files) = 1
    /\ \E k \in 1..Len(mockDir.entries) :
          mockDir.entries[k].isDir /\ EndsWith(mockDir.entries[k].name, ext)
    /\ \E k \in 1..Len(mockDir.entries) :
          ~mockDir.entries[k].isDir /\ ~EndsWith(mockDir.entries[k].name, ext)

\* C3: a listed pair in which either name has no digit run is in plain
\* lexicographic order of the full names.
C3_LexFallback ==
    Listed =>
        \A i, j \in 1..Len(result.files) :
            (/\ i < j
             /\ (~HasDigitRun(result.files[i]) \/ ~HasDigitRun(result.files[j])))
            => LexLess(result.files[i], result.files[j])

C3_Witness ==
    /\ Listed
    /\ Len(result.files) = 3
    /\ \E i \in 1..3 : HasDigitRun(result.files[i])
    /\ \E i \in 1..3 : ~HasDigitRun(result.files[i])
    /\ mockDir.entries[1].name = result.files[3]

\* C4: the listing does not depend on the order the directory read yields the
\* entries in, and two names with the same first integer are in
\* lexicographic order.
C4_Deterministic ==
    Listed =>
        /\ \A other \in Reorderings(mockDir.entries) :
              ListFilesWithExtension([entries |-> other, err |-> FALSE], ext).files
                = result.files
        /\ \A i, j \in 1..Len(result.files) :
              (/\ i < j
               /\ HasDigitRun(result.files[i])
               /\ HasDigitRun(result.files[j])
               /\ FirstInt(result.files[i]) = FirstInt(result.files[j]))
              => LexLess(result.files[i], result.files[j])

C4_Witness ==
    /\ Listed
    /\ \E i, j \in 1..Len(result.files) :
          /\ i < j
          /\ HasDigitRun(result.files[i])
          /\ HasDigitRun(result.files[j])
          /\ FirstInt(result.files[i]) = FirstInt(result.files[j])
          /\ \E k, l \in 1..Len(mockDir.entries) :
                /\ k < l
                /\ mockDir.entries[k].name = result.files[j]
                /\ mockDir.entries[l].name = result.files[i]

\* The names of the entries the mocked directory read yields.
EntryNamesRead == {mockDir.entries[k].name : k \in 1..Len(mockDir.entries)}

\* C16: on the names of a directory the comparison of the listing is a strict
\* total order: of two distinct names exactly one precedes the other, no name
\* precedes itself, precedence is transitive, and the listing agrees with it
\* on every pair.
C16_TotalOrder ==
    result.called =>
        /\ \A a, b \in EntryNamesRead :
              /\ ~less(a, a)
              /\ a # b => (less(a, b) <=> ~less(b, a))
        /\ \A a, b, d \in EntryNamesRead :
              (less(a, b) /\ less(b, d)) => less(a, d)
        /\ \A i, j \in 1..Len(result.files) :
              i < j => less(result.files[i], result.files[j])

C16_Witness ==
    /\ Listed
    /\ result.files = << <<"2", "-", "a", ".", "p", "d", "f">>,
                         <<"a", ".", "p", "d", "f">>,
                         <<"a", "1", ".", "p", "d", "f">> >>
    /\ mockDir.entries[1].name = <<"a", "1", ".", "p", "d", "f">>

(***************************************************************************)
(* Claims about delete, merge and download.  A step's request and response *)
(* are resp'; the tree the request found is fsys, the tree it left fsys'.  *)
(***************************************************************************)
\* What ListFilesWithExtension(folderPath, ".pdf") returns on a tree.
FolderListing(fs, folder) ==
    ListFilesWithExtension(ReadDir(fs, FolderPath(folder)), PdfExt).files

InFolder(folder, name) == FolderPath(folder) \o <<name>>

Range(s) == {s[i] : i \in 1..Len(s)}

\* The first position of a delete list whose name is not a file of the folder
\* when the handler reaches it (it never was, or an earlier position of the
\* list names it too); 0 when there is none.
FirstMissing(fs, folder, files) ==
    LET missing == {k \in 1..Len(files) :
                       \/ ~IsFileAt(fs, InFolder(folder, files[k]))
                       \/ \E j \in 1..(k - 1) : files[j] = files[k]}
    IN  IF missing = {} THEN 0 ELSE CHOOSE k \in missing : \A j \in missing : k <= j

IsDelete(r) == r.op = "delete" /\ r.method = "DELETE" /\ r.folder # <<>>

\* C5: a delete whose non-empty list names only files that exist when they
\* are reached answers an empty 200 and removes exactly the named files: the
\* listing is the previous listing without them and nothing else changes.
C5_DeleteNamed ==
    [][(/\ IsDelete(resp')
        /\ resp'.req # <<>>
        /\ FirstMissing(fsys, resp'.folder, resp'.req) = 0)
       => LET named == {InFolder(resp'.folder, n) : n \in Range(resp'.req)}
              keep(n) == n \notin Range(resp'.req)
          IN  /\ resp'.status = 200
              /\ resp'.out = <<>>
              /\ DOMAIN fsys' = DOMAIN fsys \ named
              /\ \A q \in DOMAIN fsys' : fsys'[q] = fsys[q]
              /\ FolderListing(fsys', resp'.folder)
                   = SelectSeq(FolderListing(fsys, resp'.folder), keep)]_vars

C5_Witness ==
    /\ IsDelete(resp)
    /\ Len(resp.req) = 1
    /\ resp.status = 200
    /\ resp.removed = {InFolder(resp.folder, resp.req[1])}
    /\ FolderListing(fsys, resp.folder) # <<>>

\* C6: a delete with an empty list on a folder that exists answers 200 and
\* leaves no file in the folder, so that its listing is empty.
C6_DeleteAll ==
    [][(/\ IsDelete(resp')
        /\ resp'.req = <<>>
        /\ IsDirAt(fsys, FolderPath(resp'.folder)))
       => /\ resp'.status = 200
          /\ \A q \in Children(fsys', FolderPath(resp'.folder)) : fsys'[q].isDir
          /\ FolderListing(fsys', resp'.folder) = <<>>]_vars

C6_Witness ==
    /\ IsDelete(resp)
    /\ resp.req = <<>>
    /\ resp.status = 200
    /\ Cardinality(resp.removed) = 2
    /\ FolderListing(fsys, resp.folder) = <<>>

\* C7: a delete whose list reaches a name that is not a file of the folder
\* answers 400; the files named before that position are removed, every
\* other file, named later or not named, is left as it was.
C7_DeleteAbortsAtFirstMissing ==
    [][(/\ IsDelete(resp')
        /\ FirstMissing(fsys, resp'.folder, resp'.req) # 0)
       => LET k == FirstMissing(fsys, resp'.folder, resp'.req)
              before == {InFolder(resp'.folder, resp'.req[j]) : j \in 1..(k - 1)}
          IN  /\ resp'.status = 400
              /\ DOMAIN fsys' = DOMAIN fsys \ before
              /\ \A q \in DOMAIN fsys' : fsys'[q] = fsys[q]]_vars

C7_Witness ==
    /\ IsDelete(resp)
    /\ Len(resp.req) = 2
    /\ resp.status = 400
    /\ resp.removed = {InFolder(resp.folder, resp.req[1])}
    /\ FolderListing(fsys, resp.folder) # <<>>

IsMerge(r) == r.op = "generate" /\ r.method = "POST" /\ r.folder # <<>>

\* C8: a merge on a folder that can be read and lists no PDF answers with
\* the no-input error, makes no call of the external merge and leaves the
\* tree, the output path included, as it was.
C8_MergeNoInput ==
    [][(/\ IsMerge(resp')
        /\ IsDirAt(fsys, FolderPath(resp'.folder))
        /\ FolderListing(fsys, resp'.folder) = <<>>)
       => /\ resp'.status = 500
          /\ resp'.error = "no se encontraron archivos PDF"
          /\ resp'.calls = <<>>
          /\ fsys' = fsys]_vars

C8_Witness ==
    /\ IsMerge(resp)
    /\ resp.error = "no se encontraron archivos PDF"
    /\ IsDirAt(fsys, FolderPath(resp.folder))
    /\ IsFileAt(fsys, <<resp.folder \o PdfExt>>)

\* C9: the inputs a merge hands to the external merge are the names GET /list
\* answers for the same tree, in the same order, each below the folder path;
\* and GET /list answers the folder's listing.
C9_MergeOrderIsListOrder ==
    [][/\ (IsMerge(resp') /\ resp'.calls # <<>>)
          => LET listing == FolderListing(fsys, resp'.folder)
             IN  /\ Len(resp'.calls) = 1
                 /\ resp'.calls[1].inFiles
                      = [i \in 1..Len(listing) |-> InFolder(resp'.folder, listing[i])]
       /\ (resp'.op = "list" /\ resp'.status = 200)
          => resp'.out[1].array = FolderListing(fsys, resp'.folder)
       /\ (IsMerge(resp') /\ resp'.status = 200)
          => resp'.calls # <<>>]_vars

C9_Witness ==
    /\ IsMerge(resp)
    /\ resp.status = 200
    /\ Len(resp.calls[1].inFiles) = 2
    /\ resp.calls[1].inFiles[1]
         = InFolder(resp.folder, <<"1", "2", "-", "d", ".", "p", "d", "f">>)
    /\ resp.calls[1].inFiles[2]
         = InFolder(resp.folder, <<"2", "-", "d", ".", "p", "d", "f">>)

\* The output path <storageRoot>/<folder>.pdf: beside the folder, under the
\* folder's last component with ".pdf" appended.
SiblingOutput(folder) ==
    LET fp == FolderPath(folder)
    IN  Parent(fp) \o <<fp[Len(fp)] \o PdfExt>>

\* C10: a successful merge writes <storageRoot>/<folder>.pdf, beside the
\* folder, and a download of a folder that has been merged serves the output
\* of its most recent successful merge.
C10_DownloadServesLastMerge ==
    /\ (IsMerge(resp) /\ resp.status = 200)
       => /\ resp.calls[1].outFile = SiblingOutput(resp.folder)
          /\ IsFileAt(fsys, SiblingOutput(resp.folder))
          /\ fsys[SiblingOutput(resp.folder)].src = resp.calls[1].inFiles
    /\ (resp.op = "download" /\ resp.folder # <<>> /\ lastMerged[resp.folder] # <<>>)
       => /\ resp.status = 200
          /\ resp.out = lastMerged[resp.folder]

(***************************************************************************)
(* Claims about upload.                                                    *)
(***************************************************************************)
\* The part of a name before its first "-", the whole name when it has none.
LeadingSegment(name) ==
    LET dashes == {i \in 1..Len(name) : name[i] = "-"}
    IN  IF dashes = {} THEN name
        ELSE SubSeq(name, 1, (CHOOSE i \in dashes : \A j \in dashes : i <= j) - 1)

\* A decimal integer: an optional sign, then digits only, at least one.
ParsesAsInteger(s) ==
    LET body == IF s # <<>> /\ s[1] \in {"+", "-"} THEN Tail(s) ELSE s
    IN  body # <<>> /\ \A i \in 1..Len(body) : body[i] \in Digits

HasSequenceNumber(name) == ParsesAsInteger(LeadingSegment(name))

SequenceNumber(name) == Atoi(LeadingSegment(name)).val

\* The name the claim gives the k-th file of a batch uploaded to a folder
\* that listed base PDF entries.
ExpectedName(name, base, k) ==
    IF HasSequenceNumber(name) THEN name ELSE Itoa(base + k) \o <<"-">> \o name

IsUpload(r) == r.op = "upload" /\ r.method = "POST" /\ r.folder # <<>>

\* C11: an upload that succeeds stores the k-th file of its batch as
\* "<base + k>-<name>" when the part of the name before the first "-" is not
\* an integer, base being the number of PDF entries the folder listed before
\* the batch, and under its own name otherwise; it stores nothing else.
C11_UploadNaming ==
    [][(IsUpload(resp') /\ resp'.status = 200)
       => LET base == Len(FolderListing(fsys, resp'.folder))
              files == resp'.req
              final(k) == ExpectedName(files[k], base, k)
          IN  /\ resp'.out = [k \in 1..Len(files) |-> final(k)]
              /\ StoredFiles(fsys')
                   = StoredFiles(fsys)
                       \cup {InFolder(resp'.folder, final(k)) : k \in 1..Len(files)}]_vars

C11_Witness ==
    /\ IsUpload(resp)
    /\ resp.status = 200
    /\ resp.req = << <<"1", "2", "-", "d", ".", "p", "d", "f">>, <<"d", ".", "p", "d", "f">> >>
    /\ IsFileAt(fsys, InFolder(resp.folder, <<"2", "-", "d", ".", "p", "d", "f">>))
    /\ IsFileAt(fsys, InFolder(resp.folder, <<"1", "2", "-", "d", ".", "p", "d", "f">>))

\* The names of the regular files of a folder.
EntryNames(fs, folder) ==
    {p[Len(p)] : p \in {q \in Children(fs, FolderPath(folder)) : ~fs[q].isDir}}

\* C15: the sequence number an upload assigns to a file that has none is
\* not the sequence number of an entry the folder already stores nor of
\* another file of the batch, and the file replaces no stored entry.
C15_NoSequenceCollision ==
    [][IsUpload(resp')
       => \A k \in 1..Len(resp'.out) :
             ~HasSequenceNumber(resp'.req[k])
             => /\ \A e \in EntryNames(fsys, resp'.folder) :
                      /\ e # resp'.out[k]
                      /\ HasSequenceNumber(e)
                           => SequenceNumber(e) # SequenceNumber(resp'.out[k])
                /\ \A j \in 1..Len(resp'.out) :
                      j # k => SequenceNumber(resp'.out[j]) # SequenceNumber(resp'.out[k])]_vars

\* C17: an upload whose k-th file cannot be opened, created or copied answers
\* 5xx; the files before the k-th are stored under their final names, no file
\* after the k-th is written and nothing that was stored or written is undone.
C17_UploadStopsAtFailure ==
    [][IsUpload(resp')
       => \A fail \in [at : 1..Len(resp'.req), kind : FailKinds] :
             UploadHandler(resp'.method, resp'.folder, resp'.req, TRUE, fail)
             => LET k == fail.at
                    files == resp'.req
                    base == Len(FolderListing(fsys, resp'.folder))
                    final(j) == InFolder(resp'.folder, ExpectedName(files[j], base, j))
                IN  /\ resp'.status \in 500..599
                    /\ \A j \in 1..(k - 1) : IsFileAt(fsys', final(j))
                    /\ \A j \in (k + 1)..Len(files) :
                          (~Exists(fsys, final(j)) /\ \A i \in 1..k : final(i) # final(j))
                          => ~Exists(fsys', final(j))
                    /\ \A p \in DOMAIN fsys : Exists(fsys', p) /\ fsys'[p] = fsys[p]
                    /\ \A j \in 1..(k - 1) :
                          ExpectedName(files[j], base, j)
                            \in Range(FolderListing(fsys', resp'.folder))]_vars

C17_Witness ==
    /\ IsUpload(resp)
    /\ resp.status = 500
    /\ Len(resp.req) = 2
    /\ Len(resp.out) = 1
    /\ IsFileAt(fsys, InFolder(resp.folder, resp.out[1]))
    /\ FolderListing(fsys, resp.folder) = resp.out

\* C19: with uploads of plain names only, every successful batch appends its
\* files, in input order, to the folder's listing, so that the listing (the
\* merge input order, and what GET /list answers) is the upload order.
C19_UploadOrderIsListOrder ==
    [][/\ (IsUpload(resp') /\ resp'.status = 200)
          => FolderListing(fsys', resp'.folder)
               = FolderListing(fsys, resp'.folder) \o resp'.out
       /\ (resp'.op = "list" /\ resp'.status = 200)
          => \A i \in 1..Len(resp'.out[1].array) :
                SequenceNumber(resp'.out[1].array[i]) = i]_vars

(***************************************************************************)
(* Claims about the access codes, the gate and the routes.                 *)
(***************************************************************************)
\* C12 as stated: a code is valid exactly when a generate, completed earlier,
\* returned it.
C12_ValidIffGenerated ==
    \A code \in AccessCodes : validate(validCodes, code) <=> code \in generated

\* C12, amended: a code is valid exactly when it is the code the map is
\* initialised with or a generate, completed earlier, returned it; login
\* accepts exactly these codes and the gate lets only them through.
C12_ValidIffSeededOrGenerated ==
    /\ \A code \in AccessCodes :
          validate(validCodes, code) <=> code \in SeededCodes \cup generated
    /\ (resp.op = "login" /\ resp.status = 303)
          => resp.out[1] \in SeededCodes \cup generated
    /\ (resp.op = "login" /\ resp.status = 401)
          => resp.req[1] \notin SeededCodes \cup generated
    /\ served.userCode # <<>> => served.userCode \in SeededCodes \cup generated

C12_Witness ==
    /\ resp.op = "login"
    /\ resp.status = 303
    /\ resp.out[1] \in generated \ SeededCodes
    /\ resp.out[1] = <<"Y", "W", "F", "k">>
    /\ ~validate(validCodes, Garbage)

GatedPaths == {p \in DOMAIN ServeMux : ServeMux[p].gated}

FileHandlerOps == {"upload", "list", "generate", "download", "delete"}

\* C13: a request to a gated path reaches its handler only with a cookie
\* whose value the map holds at that time, and the user code of its context
\* is then that value; without such a cookie the answer is 401, no handler
\* runs and the storage tree stays as it was.
C13_GateBeforeHandler ==
    [][served'.path \in GatedPaths
       => LET cookie == served'.cookie
              valid == cookie.present /\ cookie.value \in validCodes
          IN  /\ (resp'.op \in FileHandlerOps \/ served'.handler # "none")
                 => /\ valid
                    /\ served'.userCode = cookie.value
                    /\ served'.handler = ServeMux[served'.path].handler
              /\ ~valid
                 => /\ resp'.status = 401
                    /\ resp'.op \notin FileHandlerOps
                    /\ served'.handler = "none"
                    /\ fsys' = fsys
                    /\ lastMerged' = lastMerged]_vars

C13_Witness ==
    /\ served.path = "/upload"
    /\ served.handler = "UploadHandler"
    /\ served.userCode \in generated \ SeededCodes
    /\ resp.op = "upload"
    /\ resp.status = 200
    /\ IsFileAt(fsys, InFolder(resp.folder, <<"1", "-", "d", ".", "p", "d", "f">>))

\* The cookie-gated routes of the HTTP surface, each with the handler that
\* answers it.
CookieGatedRoutes ==
    ("/upload" :> "upload") @@ ("/list" :> "list") @@ ("/delete" :> "delete") @@
    ("/generate" :> "generate") @@ ("/download" :> "download")

\* C14: a request to one of the five cookie-gated routes is answered by the
\* route's handler when its cookie is valid, and reaches no handler and
\* changes nothing when it is not.
C14_FiveRoutesGated ==
    [][served'.path \in DOMAIN CookieGatedRoutes
       => IF served'.cookie.present /\ served'.cookie.value \in validCodes
          THEN resp'.op = CookieGatedRoutes[served'.path]
          ELSE resp'.op \notin FileHandlerOps /\ fsys' = fsys]_vars

(***************************************************************************)
(* Claims about the concurrent server.                                     *)
(***************************************************************************)
InCriticalSection(wk) == wk.pc \in {"access", "unlock"}

\* The workers that take a step.
Stepping == {w \in Workers : workers'[w] # workers[w]}

\* C18: in every interleaving, a worker between Lock and Unlock holds the
\* mutex, so at most one is there at a time; the map is read or written only
\* by the worker holding it; a worker that writes a response or touches the
\* storage tree does not hold it; and a lookup of a code a generate has
\* answered finds it valid.
C18_LockDiscipline ==
    [][/\ \A w \in Workers : InCriticalSection(workers'[w]) => codesMutex' = w
       /\ \A w, v \in Workers :
             (InCriticalSection(workers'[w]) /\ InCriticalSection(workers'[v])) => w = v
       /\ \A w \in Stepping :
             (workers[w].pc = "access" \/ validCodes' # validCodes) => codesMutex = w
       /\ \A w \in Stepping :
             (workers[w].pc = "respond" \/ resp' # resp \/ fsys' # fsys)
             => codesMutex # w /\ codesMutex' # w
       /\ \A w \in Stepping :
             (/\ workers[w].pc = "access"
              /\ Running(workers[w]) \in {"LoginHandler", "AuthMiddleware"}
              /\ CodeOf(workers[w]) \in generated)
             => workers'[w].isValid
       /\ generated' \subseteq validCodes']_vars

C18_Witness ==
    \E w, v \in Workers :
        /\ workers[w].pc = "lock"
        /\ workers[v].pc = "unlock"
        /\ codesMutex = v
        /\ Running(workers[v]) = "AuthMiddleware"
        /\ workers[v].isValid
        /\ CodeOf(workers[v]) \in generated \ SeededCodes

=============================================================================
